---- MODULE Spec2Model ----
(***************************************************************************)
(* The Ticketing ledger of src/main.rs as a state machine.                 *)
(*                                                                         *)
(* The state is the struct Ticketing: four id counters, four entity maps   *)
(* and two balance maps.  Every public method is one action.  The record   *)
(* `call` holds the last call made (the method, its arguments, how it     *)
(* ended and what it returned), so that statements about results are      *)
(* statements about states.  Option<T> is a sequence: <<>> is None and     *)
(* <<x>> is Some(x).                                                       *)
(* A HashMap is a function whose DOMAIN is the set of its keys.            *)
(***************************************************************************)
EXTENDS Integers, Sequences, FiniteSets, TLC

VARIABLES
    next_artist_id, next_venue_id, next_concert_id, next_ticket_id,
    artists, venues, concerts, tickets,
    balances_artist, balances_venue,
    call,              \* the last call: [op, args, outcome, ret]
    redeemed,          \* history: the codes some redeem_ticket call has returned a ticket for
    holder_paid,       \* history: per ticket, what its current holder paid to acquire it
    wrapped,           \* history: an overflow has wrapped (the build has overflow checks off)
    paid_out           \* history: per concert, how many cash_out calls have returned true

ledger ==
    <<next_artist_id, next_venue_id, next_concert_id, next_ticket_id,
      artists, venues, concerts, tickets, balances_artist, balances_venue>>

history == <<redeemed, holder_paid, wrapped, paid_out>>

vars == <<ledger, call, history>>

----------------------------------------------------------------------------
(* Bounds of the model. *)

MaxArtists == 1

MaxVenues == 1

MaxConcerts == 2

MaxTickets == 2

\* Stand-ins for the integer widths: TLC's integers are 32 bits wide, so u64
\* and u32 are modelled as narrower unsigned types with the same arithmetic.
\* The u64 stand-in is wide enough that an ordinary amount times any u16
\* venue_cut_bps fits, as it does in a u64.
U64Bits == 29

U32Bits == 10

MaxU64 == 2^U64Bits - 1

MaxU32 == 2^U32Bits - 1

----------------------------------------------------------------------------
(* Program constants. *)

WINDOW_SECS == 86400

BPS_DENOMINATOR == 10000

----------------------------------------------------------------------------
(* Option, HashMap and integer helpers. *)

None == <<>>

Some(x) == <<x>>

Insert(map, key, value) ==
    [k \in DOMAIN map \cup {key} |-> IF k = key THEN value ELSE map[k]]

saturating_add(a, b, max) == IF a + b > max THEN max ELSE a + b

saturating_sub(a, b) == IF a >= b THEN a - b ELSE 0

\* (a * b) % m computed without leaving the range 0 .. 2*m (double and add).
RECURSIVE MulMod(_, _, _)
MulMod(a, b, m) ==
    IF b = 0 THEN 0
    ELSE LET half == MulMod(a, b \div 2, m)
             twice == (half + half) % m
         IN  IF b % 2 = 1 THEN (twice + (a % m)) % m ELSE twice

\* a * b overflows the unsigned type whose largest value is max.
MulOverflows(a, b, max) == b > 0 /\ a > max \div b

\* a * b as the release build computes it (wrapping at the type's width).
wrapping_mul(a, b, max) ==
    IF MulOverflows(a, b, max) THEN MulMod(a, b, max + 1) ELSE a * b

\* a + b as the release build computes it.
wrapping_add(a, b, max) == (a + b) % (max + 1)

\* format!("artist:{artist_id}")
ArtistOwner(artist_id) == "artist:" \o ToString(artist_id)

----------------------------------------------------------------------------
(* The last call. *)

Returned(op, args, ret) ==
    [op |-> op, args |-> args, outcome |-> "returned", ret |-> ret]

Panicked(op, args) ==
    [op |-> op, args |-> args, outcome |-> "panicked", ret |-> None]

Unit == "()"

Running == call.outcome # "panicked"

\* Integer overflow panics where the build has overflow checks on (the dev
\* profile) and wraps where it has them off (the release profile).  Nothing
\* else tells the two builds apart, so the build is chosen at the first
\* overflow; once a result has wrapped, checks are off for the rest of the run.
BuildChoices(overflows) == IF overflows /\ ~wrapped THEN BOOLEAN ELSE {FALSE}

----------------------------------------------------------------------------
(* Ticketing::default() *)

Init ==
    /\ next_artist_id = 0
    /\ next_venue_id = 0
    /\ next_concert_id = 0
    /\ next_ticket_id = 0
    /\ artists = <<>>
    /\ venues = <<>>
    /\ concerts = <<>>
    /\ tickets = <<>>
    /\ balances_artist = <<>>
    /\ balances_venue = <<>>
    /\ call = Returned("default", <<>>, Unit)
    /\ redeemed = {}
    /\ holder_paid = <<>>
    /\ wrapped = FALSE
    /\ paid_out = <<>>

----------------------------------------------------------------------------
(* Artist and venue management. *)

create_artist(name, artist_type) ==
    LET id == next_artist_id + 1
    IN  /\ next_artist_id' = id
        /\ artists' = Insert(artists, id,
              [id |-> id, name |-> name, artist_type |-> artist_type,
               total_tickets_sold |-> 0])
        /\ call' = Returned("create_artist", <<name, artist_type>>, id)
        /\ UNCHANGED <<next_venue_id, next_concert_id, next_ticket_id, venues,
                       concerts, tickets, balances_artist, balances_venue,
                       history>>

update_artist(id, name, artist_type) ==
    /\ artists' =
          IF id \in DOMAIN artists
          THEN [artists EXCEPT ![id].name = name, ![id].artist_type = artist_type]
          ELSE artists
    /\ call' = Returned("update_artist", <<id, name, artist_type>>, Unit)
    /\ UNCHANGED <<next_artist_id, next_venue_id, next_concert_id, next_ticket_id,
                   venues, concerts, tickets, balances_artist, balances_venue,
                   history>>

create_venue(name, capacity, venue_cut_bps, next_concert_date) ==
    LET id == next_venue_id + 1
    IN  /\ next_venue_id' = id
        /\ venues' = Insert(venues, id,
              [id |-> id, name |-> name, capacity |-> capacity,
               venue_cut_bps |-> venue_cut_bps,
               next_concert_date |-> next_concert_date])
        /\ call' = Returned("create_venue", <<name, capacity, venue_cut_bps, next_concert_date>>, id)
        /\ UNCHANGED <<next_artist_id, next_concert_id, next_ticket_id, artists,
                       concerts, tickets, balances_artist, balances_venue,
                       history>>

update_venue(id, name, capacity, venue_cut_bps, next_concert_date) ==
    /\ venues' =
          IF id \in DOMAIN venues
          THEN [venues EXCEPT ![id].name = name, ![id].capacity = capacity,
                              ![id].venue_cut_bps = venue_cut_bps,
                              ![id].next_concert_date = next_concert_date]
          ELSE venues
    /\ call' = Returned("update_venue", <<id, name, capacity, venue_cut_bps, next_concert_date>>, Unit)
    /\ UNCHANGED <<next_artist_id, next_venue_id, next_concert_id, next_ticket_id,
                   artists, concerts, tickets, balances_artist, balances_venue,
                   history>>

----------------------------------------------------------------------------
(* Concert lifecycle. *)

\* create_concert with the advance of next_concert_id (line 139) left out.
create_concert_stale_counter(artist_id, venue_id, date_ts, ticket_price, total_tickets) ==
    LET id == next_concert_id + 1
    IN  /\ concerts' = Insert(concerts, id,
              [id |-> id, artist_id |-> artist_id, venue_id |-> venue_id,
               date_ts |-> date_ts, ticket_price |-> ticket_price,
               total_tickets |-> total_tickets, tickets_issued |-> 0,
               validated_by_artist |-> FALSE, validated_by_venue |-> FALSE,
               tickets_sold |-> 0, revenue |-> 0, cashed_out |-> FALSE])
        /\ call' = Returned("create_concert",
              <<artist_id, venue_id, date_ts, ticket_price, total_tickets>>, id)
        /\ paid_out' = Insert(paid_out, id, 0)
        /\ UNCHANGED <<next_artist_id, next_venue_id, next_concert_id,
                       next_ticket_id, artists, venues, tickets,
                       balances_artist, balances_venue, redeemed, holder_paid,
                       wrapped>>

create_concert(artist_id, venue_id, date_ts, ticket_price, total_tickets) ==
    LET id == next_concert_id + 1
    IN  /\ next_concert_id' = id
        /\ concerts' = Insert(concerts, id,
              [id |-> id, artist_id |-> artist_id, venue_id |-> venue_id,
               date_ts |-> date_ts, ticket_price |-> ticket_price,
               total_tickets |-> total_tickets, tickets_issued |-> 0,
               validated_by_artist |-> FALSE, validated_by_venue |-> FALSE,
               tickets_sold |-> 0, revenue |-> 0, cashed_out |-> FALSE])
        /\ call' = Returned("create_concert", <<artist_id, venue_id, date_ts, ticket_price, total_tickets>>, id)
        /\ paid_out' = Insert(paid_out, id, 0)
        /\ UNCHANGED <<next_artist_id, next_venue_id, next_ticket_id, artists,
                       venues, tickets, balances_artist, balances_venue,
                       redeemed, holder_paid, wrapped>>

\* validate_concert_by_artist with the comparison of line 163 left out.
validate_concert_by_artist_any_caller(concert_id, artist_id) ==
    /\ concerts' =
          IF concert_id \in DOMAIN concerts
          THEN [concerts EXCEPT ![concert_id].validated_by_artist = TRUE]
          ELSE concerts
    /\ call' = Returned("validate_concert_by_artist", <<concert_id, artist_id>>, Unit)
    /\ UNCHANGED <<next_artist_id, next_venue_id, next_concert_id, next_ticket_id,
                   artists, venues, tickets, balances_artist, balances_venue,
                   history>>

validate_concert_by_artist(concert_id, artist_id) ==
    /\ concerts' =
          IF concert_id \in DOMAIN concerts
             /\ concerts[concert_id].artist_id = artist_id
          THEN [concerts EXCEPT ![concert_id].validated_by_artist = TRUE]
          ELSE concerts
    /\ call' = Returned("validate_concert_by_artist", <<concert_id, artist_id>>, Unit)
    /\ UNCHANGED <<next_artist_id, next_venue_id, next_concert_id, next_ticket_id,
                   artists, venues, tickets, balances_artist, balances_venue,
                   history>>

validate_concert_by_venue(concert_id, venue_id) ==
    /\ concerts' =
          IF concert_id \in DOMAIN concerts
             /\ concerts[concert_id].venue_id = venue_id
          THEN [concerts EXCEPT ![concert_id].validated_by_venue = TRUE]
          ELSE concerts
    /\ call' = Returned("validate_concert_by_venue", <<concert_id, venue_id>>, Unit)
    /\ UNCHANGED <<next_artist_id, next_venue_id, next_concert_id, next_ticket_id,
                   artists, venues, tickets, balances_artist, balances_venue,
                   history>>

----------------------------------------------------------------------------
(* Ticket issuance. *)

\* A call that is rejected: the early returns, which precede every write.
Rejected(op, args, ret) ==
    /\ call' = Returned(op, args, ret)
    /\ UNCHANGED <<ledger, history>>

\* emit_ticket with the venue's validation forgotten in the gate of line 184.
emit_ticket_artist_only(concert_id, artist_id, redeem_code) ==
    IF concert_id \notin DOMAIN concerts
    THEN Rejected("emit_ticket", <<concert_id, artist_id, redeem_code>>, None)
    ELSE LET concert == concerts[concert_id]
             ticket_id == next_ticket_id + 1
         IN  IF concert.artist_id # artist_id \/ ~concert.validated_by_artist
             THEN Rejected("emit_ticket", <<concert_id, artist_id, redeem_code>>, None)
             ELSE IF concert.tickets_issued >= concert.total_tickets
             THEN Rejected("emit_ticket", <<concert_id, artist_id, redeem_code>>, None)
             ELSE /\ next_ticket_id' = ticket_id
                  /\ tickets' = Insert(tickets, ticket_id,
                        [id |-> ticket_id, concert_id |-> concert_id,
                         owner |-> Some(ArtistOwner(artist_id)),
                         used |-> FALSE, price_paid |-> 0,
                         minted_by_artist |-> TRUE,
                         redeem_code |-> redeem_code])
                  /\ concerts' = [concerts EXCEPT
                        ![concert_id].tickets_issued = concert.tickets_issued + 1]
                  /\ call' = Returned("emit_ticket",
                        <<concert_id, artist_id, redeem_code>>, Some(ticket_id))
                  /\ holder_paid' = Insert(holder_paid, ticket_id, 0)
                  /\ UNCHANGED <<next_artist_id, next_venue_id, next_concert_id,
                                 artists, venues, balances_artist, balances_venue,
                                 redeemed, wrapped, paid_out>>

\* emit_ticket with the increment of tickets_issued (lines 205-207) left out.
emit_ticket_uncounted(concert_id, artist_id, redeem_code) ==
    IF concert_id \notin DOMAIN concerts
        THEN Rejected("emit_ticket", <<concert_id, artist_id, redeem_code>>, None)
        ELSE LET concert == concerts[concert_id]
                 ticket_id == next_ticket_id + 1
             IN  IF \/ concert.artist_id # artist_id
                    \/ ~concert.validated_by_artist
                    \/ ~concert.validated_by_venue
                 THEN Rejected("emit_ticket", <<concert_id, artist_id, redeem_code>>, None)
                 ELSE IF concert.tickets_issued >= concert.total_tickets
                 THEN Rejected("emit_ticket", <<concert_id, artist_id, redeem_code>>, None)
                 ELSE /\ next_ticket_id' = ticket_id
                      /\ tickets' = Insert(tickets, ticket_id,
                            [id |-> ticket_id, concert_id |-> concert_id,
                             owner |-> Some(ArtistOwner(artist_id)),
                             used |-> FALSE, price_paid |-> 0,
                             minted_by_artist |-> TRUE,
                             redeem_code |-> redeem_code])
                      /\ concerts' = concerts
                      /\ call' = Returned("emit_ticket", <<concert_id, artist_id, redeem_code>>, Some(ticket_id))
                      /\ holder_paid' = Insert(holder_paid, ticket_id, 0)
                      /\ UNCHANGED <<next_artist_id, next_venue_id, next_concert_id,
                                     artists, venues, balances_artist, balances_venue,
                                     redeemed, wrapped, paid_out>>

emit_ticket(concert_id, artist_id, redeem_code) ==
    IF concert_id \notin DOMAIN concerts
        THEN Rejected("emit_ticket", <<concert_id, artist_id, redeem_code>>, None)
        ELSE LET concert == concerts[concert_id]
                 ticket_id == next_ticket_id + 1
             IN  IF \/ concert.artist_id # artist_id
                    \/ ~concert.validated_by_artist
                    \/ ~concert.validated_by_venue
                 THEN Rejected("emit_ticket", <<concert_id, artist_id, redeem_code>>, None)
                 ELSE IF concert.tickets_issued >= concert.total_tickets
                 THEN Rejected("emit_ticket", <<concert_id, artist_id, redeem_code>>, None)
                 ELSE /\ next_ticket_id' = ticket_id
                      /\ tickets' = Insert(tickets, ticket_id,
                            [id |-> ticket_id, concert_id |-> concert_id,
                             owner |-> Some(ArtistOwner(artist_id)),
                             used |-> FALSE, price_paid |-> 0,
                             minted_by_artist |-> TRUE,
                             redeem_code |-> redeem_code])
                      \* tickets_issued < total_tickets <= u32::MAX: += 1 fits
                      /\ concerts' = [concerts EXCEPT
                            ![concert_id].tickets_issued = concert.tickets_issued + 1]
                      /\ call' = Returned("emit_ticket", <<concert_id, artist_id, redeem_code>>, Some(ticket_id))
                      /\ holder_paid' = Insert(holder_paid, ticket_id, 0)
                      /\ UNCHANGED <<next_artist_id, next_venue_id, next_concert_id,
                                     artists, venues, balances_artist, balances_venue,
                                     redeemed, wrapped, paid_out>>

buy_ticket(concert_id, buyer, amount_paid) ==
    IF concert_id \notin DOMAIN concerts
    THEN Rejected("buy_ticket", <<concert_id, buyer, amount_paid>>, None)
    ELSE
    LET concert == concerts[concert_id]
        ticket_id == next_ticket_id + 1
        has_artist == concert.artist_id \in DOMAIN artists
        sold == IF has_artist
                THEN artists[concert.artist_id].total_tickets_sold ELSE 0
        \* line 238 is a plain += 1 on a u32
        overflows == has_artist /\ sold = MaxU32
    IN  IF ~concert.validated_by_artist \/ ~concert.validated_by_venue
        THEN Rejected("buy_ticket", <<concert_id, buyer, amount_paid>>, None)
        ELSE IF concert.tickets_issued >= concert.total_tickets
        THEN Rejected("buy_ticket", <<concert_id, buyer, amount_paid>>, None)
        ELSE \E overflow_checks \in BuildChoices(overflows) :
             /\ concerts' = [concerts EXCEPT
                   ![concert_id].tickets_sold =
                       saturating_add(concert.tickets_sold, 1, MaxU32),
                   ![concert_id].tickets_issued =
                       saturating_add(concert.tickets_issued, 1, MaxU32),
                   ![concert_id].revenue =
                       saturating_add(concert.revenue, amount_paid, MaxU64)]
             /\ next_ticket_id' = ticket_id
             /\ tickets' = Insert(tickets, ticket_id,
                   [id |-> ticket_id, concert_id |-> concert_id,
                    owner |-> Some(buyer), used |-> FALSE,
                    price_paid |-> amount_paid,
                    minted_by_artist |-> FALSE, redeem_code |-> None])
             /\ artists' =
                   IF ~has_artist \/ (overflows /\ overflow_checks)
                   THEN artists
                   ELSE [artists EXCEPT
                           ![concert.artist_id].total_tickets_sold =
                               wrapping_add(sold, 1, MaxU32)]
             /\ call' = IF overflows /\ overflow_checks
                        THEN Panicked("buy_ticket", <<concert_id, buyer, amount_paid>>)
                        ELSE Returned("buy_ticket", <<concert_id, buyer, amount_paid>>, Some(ticket_id))
             /\ holder_paid' = Insert(holder_paid, ticket_id, amount_paid)
             /\ wrapped' = (wrapped \/ overflows)
             /\ UNCHANGED <<next_artist_id, next_venue_id, next_concert_id,
                            venues, balances_artist, balances_venue, redeemed,
                            paid_out>>

\* distribute_ticket with the supply check of lines 325-327 left out.
distribute_ticket_uncapped(concert_id, artist_id, redeem_code) ==
    IF concert_id \notin DOMAIN concerts
    THEN Rejected("distribute_ticket", <<concert_id, artist_id, redeem_code>>, None)
    ELSE LET concert == concerts[concert_id]
             ticket_id == next_ticket_id + 1
         IN  IF \/ concert.artist_id # artist_id
                \/ ~concert.validated_by_artist
                \/ ~concert.validated_by_venue
             THEN Rejected("distribute_ticket",
                           <<concert_id, artist_id, redeem_code>>, None)
             ELSE /\ concerts' = [concerts EXCEPT
                        ![concert_id].tickets_issued =
                            saturating_add(concert.tickets_issued, 1, MaxU32)]
                  /\ next_ticket_id' = ticket_id
                  /\ tickets' = Insert(tickets, ticket_id,
                        [id |-> ticket_id, concert_id |-> concert_id,
                         owner |-> None, used |-> FALSE, price_paid |-> 0,
                         minted_by_artist |-> TRUE,
                         redeem_code |-> Some(redeem_code)])
                  /\ call' = Returned("distribute_ticket",
                        <<concert_id, artist_id, redeem_code>>, Some(ticket_id))
                  /\ holder_paid' = Insert(holder_paid, ticket_id, 0)
                  /\ UNCHANGED <<next_artist_id, next_venue_id, next_concert_id,
                                 artists, venues, balances_artist, balances_venue,
                                 redeemed, wrapped, paid_out>>

\* distribute_ticket counting the free ticket as a sale as well (line 328).
distribute_ticket_counted_as_sale(concert_id, artist_id, redeem_code) ==
    IF concert_id \notin DOMAIN concerts
        THEN Rejected("distribute_ticket", <<concert_id, artist_id, redeem_code>>, None)
        ELSE LET concert == concerts[concert_id]
                 ticket_id == next_ticket_id + 1
             IN  IF \/ concert.artist_id # artist_id
                    \/ ~concert.validated_by_artist
                    \/ ~concert.validated_by_venue
                 THEN Rejected("distribute_ticket", <<concert_id, artist_id, redeem_code>>, None)
                 ELSE IF concert.tickets_issued >= concert.total_tickets
                 THEN Rejected("distribute_ticket", <<concert_id, artist_id, redeem_code>>, None)
                 ELSE /\ concerts' = [concerts EXCEPT
                            ![concert_id].tickets_issued =
                                saturating_add(concert.tickets_issued, 1, MaxU32),
                            ![concert_id].tickets_sold =
                                saturating_add(concert.tickets_sold, 1, MaxU32)]
                      /\ next_ticket_id' = ticket_id
                      /\ tickets' = Insert(tickets, ticket_id,
                            [id |-> ticket_id, concert_id |-> concert_id,
                             owner |-> None, used |-> FALSE, price_paid |-> 0,
                             minted_by_artist |-> TRUE,
                             redeem_code |-> Some(redeem_code)])
                      /\ call' = Returned("distribute_ticket", <<concert_id, artist_id, redeem_code>>, Some(ticket_id))
                      /\ holder_paid' = Insert(holder_paid, ticket_id, 0)
                      /\ UNCHANGED <<next_artist_id, next_venue_id, next_concert_id,
                                     artists, venues, balances_artist, balances_venue,
                                     redeemed, wrapped, paid_out>>

distribute_ticket(concert_id, artist_id, redeem_code) ==
    IF concert_id \notin DOMAIN concerts
        THEN Rejected("distribute_ticket", <<concert_id, artist_id, redeem_code>>, None)
        ELSE LET concert == concerts[concert_id]
                 ticket_id == next_ticket_id + 1
             IN  IF \/ concert.artist_id # artist_id
                    \/ ~concert.validated_by_artist
                    \/ ~concert.validated_by_venue
                 THEN Rejected("distribute_ticket", <<concert_id, artist_id, redeem_code>>, None)
                 ELSE IF concert.tickets_issued >= concert.total_tickets
                 THEN Rejected("distribute_ticket", <<concert_id, artist_id, redeem_code>>, None)
                 ELSE /\ concerts' = [concerts EXCEPT
                            ![concert_id].tickets_issued =
                                saturating_add(concert.tickets_issued, 1, MaxU32)]
                      /\ next_ticket_id' = ticket_id
                      /\ tickets' = Insert(tickets, ticket_id,
                            [id |-> ticket_id, concert_id |-> concert_id,
                             owner |-> None, used |-> FALSE, price_paid |-> 0,
                             minted_by_artist |-> TRUE,
                             redeem_code |-> Some(redeem_code)])
                      /\ call' = Returned("distribute_ticket", <<concert_id, artist_id, redeem_code>>, Some(ticket_id))
                      /\ holder_paid' = Insert(holder_paid, ticket_id, 0)
                      /\ UNCHANGED <<next_artist_id, next_venue_id, next_concert_id,
                                     artists, venues, balances_artist, balances_venue,
                                     redeemed, wrapped, paid_out>>

\* HashMap::iter_mut().find(..): the first match in an unspecified order, so
\* any ticket that matches may be the one found.
redeem_ticket(code, user) ==
    LET matches == {id \in DOMAIN tickets :
                        /\ tickets[id].owner = None
                        /\ tickets[id].redeem_code = Some(code)}
    IN  IF matches = {}
        THEN Rejected("redeem_ticket", <<code, user>>, None)
        ELSE \E id \in matches :
                /\ tickets' = [tickets EXCEPT ![id].owner = Some(user)]
                /\ call' = Returned("redeem_ticket", <<code, user>>, Some(id))
                /\ redeemed' = redeemed \cup {code}
                /\ holder_paid' = [holder_paid EXCEPT ![id] = 0]
                /\ UNCHANGED <<next_artist_id, next_venue_id, next_concert_id,
                               next_ticket_id, artists, venues, concerts,
                               balances_artist, balances_venue, wrapped,
                               paid_out>>

----------------------------------------------------------------------------
(* Ownership transfer, resale and consumption. *)

\* transfer_ticket with the used test of line 245 left out.
transfer_ticket_ignoring_used(ticket_id, from, to) ==
    IF /\ ticket_id \in DOMAIN tickets
       /\ tickets[ticket_id].owner = Some(from)
    THEN /\ tickets' = [tickets EXCEPT ![ticket_id].owner = Some(to)]
         /\ call' = Returned("transfer_ticket", <<ticket_id, from, to>>, TRUE)
         /\ holder_paid' = [holder_paid EXCEPT ![ticket_id] = 0]
         /\ UNCHANGED <<next_artist_id, next_venue_id, next_concert_id,
                        next_ticket_id, artists, venues, concerts,
                        balances_artist, balances_venue, redeemed,
                        wrapped, paid_out>>
    ELSE Rejected("transfer_ticket", <<ticket_id, from, to>>, FALSE)

\* transfer_ticket with the owner test of line 245 left out.
transfer_ticket_any_holder(ticket_id, from, to) ==
    IF /\ ticket_id \in DOMAIN tickets
       /\ ~tickets[ticket_id].used
    THEN /\ tickets' = [tickets EXCEPT ![ticket_id].owner = Some(to)]
         /\ call' = Returned("transfer_ticket", <<ticket_id, from, to>>, TRUE)
         /\ holder_paid' = [holder_paid EXCEPT ![ticket_id] = 0]
         /\ UNCHANGED <<next_artist_id, next_venue_id, next_concert_id,
                        next_ticket_id, artists, venues, concerts,
                        balances_artist, balances_venue, redeemed,
                        wrapped, paid_out>>
    ELSE Rejected("transfer_ticket", <<ticket_id, from, to>>, FALSE)

transfer_ticket(ticket_id, from, to) ==
    IF /\ ticket_id \in DOMAIN tickets
           /\ tickets[ticket_id].owner = Some(from)
           /\ ~tickets[ticket_id].used
        THEN /\ tickets' = [tickets EXCEPT ![ticket_id].owner = Some(to)]
             /\ call' = Returned("transfer_ticket", <<ticket_id, from, to>>, TRUE)
             /\ holder_paid' = [holder_paid EXCEPT ![ticket_id] = 0]
             /\ UNCHANGED <<next_artist_id, next_venue_id, next_concert_id,
                            next_ticket_id, artists, venues, concerts,
                            balances_artist, balances_venue, redeemed,
                            wrapped, paid_out>>
        ELSE Rejected("transfer_ticket", <<ticket_id, from, to>>, FALSE)

\* The window of lines 265-266 with the concert's start itself left out.
InWindow_before_start(concert, now_ts) ==
    LET window_start == saturating_sub(concert.date_ts, WINDOW_SECS)
    IN  now_ts >= window_start /\ now_ts < concert.date_ts

\* lines 265-266: the redemption window of a concert
InWindow(concert, now_ts) ==
    LET window_start == saturating_sub(concert.date_ts, WINDOW_SECS)
    IN  now_ts >= window_start /\ now_ts <= concert.date_ts

use_ticket(ticket_id, owner, now_ts) ==
    IF ~(/\ ticket_id \in DOMAIN tickets
             /\ tickets[ticket_id].owner = Some(owner)
             /\ ~tickets[ticket_id].used)
        THEN Rejected("use_ticket", <<ticket_id, owner, now_ts>>, FALSE)
        ELSE LET concert_id == tickets[ticket_id].concert_id
             IN  IF concert_id \notin DOMAIN concerts
                 THEN Rejected("use_ticket", <<ticket_id, owner, now_ts>>, FALSE)
                 ELSE IF ~(/\ concerts[concert_id].validated_by_artist
                           /\ concerts[concert_id].validated_by_venue)
                 THEN Rejected("use_ticket", <<ticket_id, owner, now_ts>>, FALSE)
                 ELSE IF InWindow(concerts[concert_id], now_ts)
                 THEN /\ tickets' = [tickets EXCEPT ![ticket_id].used = TRUE]
                      /\ call' = Returned("use_ticket", <<ticket_id, owner, now_ts>>, TRUE)
                      /\ UNCHANGED <<next_artist_id, next_venue_id, next_concert_id,
                                     next_ticket_id, artists, venues, concerts,
                                     balances_artist, balances_venue,
                                     history>>
                 ELSE Rejected("use_ticket", <<ticket_id, owner, now_ts>>, FALSE)

\* trade_ticket with the price ceiling of lines 307-309 left out.
trade_ticket_no_ceiling(ticket_id, seller, buyer, price) ==
    IF ticket_id \notin DOMAIN tickets
    THEN Rejected("trade_ticket", <<ticket_id, seller, buyer, price>>, FALSE)
    ELSE IF tickets[ticket_id].owner # Some(seller) \/ tickets[ticket_id].used
    THEN Rejected("trade_ticket", <<ticket_id, seller, buyer, price>>, FALSE)
    ELSE /\ tickets' = [tickets EXCEPT ![ticket_id].owner = Some(buyer),
                                       ![ticket_id].price_paid = price]
         /\ call' = Returned("trade_ticket", <<ticket_id, seller, buyer, price>>, TRUE)
         /\ holder_paid' = [holder_paid EXCEPT ![ticket_id] = price]
         /\ UNCHANGED <<next_artist_id, next_venue_id, next_concert_id,
                        next_ticket_id, artists, venues, concerts,
                        balances_artist, balances_venue, redeemed,
                        wrapped, paid_out>>

\* trade_ticket with the new owner written (line 310) before the price is
\* checked (lines 307-309).
trade_ticket_write_first(ticket_id, seller, buyer, price) ==
    IF ticket_id \notin DOMAIN tickets
    THEN Rejected("trade_ticket", <<ticket_id, seller, buyer, price>>, FALSE)
    ELSE IF tickets[ticket_id].owner # Some(seller) \/ tickets[ticket_id].used
    THEN Rejected("trade_ticket", <<ticket_id, seller, buyer, price>>, FALSE)
    ELSE /\ tickets' =
               IF price > tickets[ticket_id].price_paid
               THEN [tickets EXCEPT ![ticket_id].owner = Some(buyer)]
               ELSE [tickets EXCEPT ![ticket_id].owner = Some(buyer),
                                    ![ticket_id].price_paid = price]
         /\ call' = Returned("trade_ticket", <<ticket_id, seller, buyer, price>>,
                             price <= tickets[ticket_id].price_paid)
         /\ holder_paid' = [holder_paid EXCEPT ![ticket_id] = price]
         /\ UNCHANGED <<next_artist_id, next_venue_id, next_concert_id,
                        next_ticket_id, artists, venues, concerts,
                        balances_artist, balances_venue, redeemed,
                        wrapped, paid_out>>

trade_ticket(ticket_id, seller, buyer, price) ==
    IF ticket_id \notin DOMAIN tickets
        THEN Rejected("trade_ticket", <<ticket_id, seller, buyer, price>>, FALSE)
        ELSE IF tickets[ticket_id].owner # Some(seller) \/ tickets[ticket_id].used
        THEN Rejected("trade_ticket", <<ticket_id, seller, buyer, price>>, FALSE)
        ELSE IF price > tickets[ticket_id].price_paid
        THEN Rejected("trade_ticket", <<ticket_id, seller, buyer, price>>, FALSE)
        ELSE /\ tickets' = [tickets EXCEPT ![ticket_id].owner = Some(buyer),
                                           ![ticket_id].price_paid = price]
             /\ call' = Returned("trade_ticket", <<ticket_id, seller, buyer, price>>, TRUE)
             /\ holder_paid' = [holder_paid EXCEPT ![ticket_id] = price]
             /\ UNCHANGED <<next_artist_id, next_venue_id, next_concert_id,
                            next_ticket_id, artists, venues, concerts,
                            balances_artist, balances_venue, redeemed,
                            wrapped, paid_out>>

----------------------------------------------------------------------------
(* Settlement. *)

\* The gate of line 280 without its cashed_out test.
CashOutRefused_date_only(c, now_ts) == now_ts < c.date_ts

\* line 280
CashOutRefused(c, now_ts) == c.cashed_out \/ now_ts < c.date_ts

cash_out(concert_id, now_ts) ==
    IF concert_id \notin DOMAIN concerts
        THEN Rejected("cash_out", <<concert_id, now_ts>>, FALSE)
        ELSE
        LET c == concerts[concert_id]
            venue_cut_bps == IF c.venue_id \in DOMAIN venues
                             THEN venues[c.venue_id].venue_cut_bps ELSE 0
            \* line 283: revenue * venue_cut_bps is a plain u64 product
            mul_overflows == MulOverflows(c.revenue, venue_cut_bps, MaxU64)
            venue_cut == wrapping_mul(c.revenue, venue_cut_bps, MaxU64)
                            \div BPS_DENOMINATOR
            artist_cut == saturating_sub(c.revenue, venue_cut)
            \* entry(..).or_default(): an absent balance is inserted as 0
            old_artist == IF c.artist_id \in DOMAIN balances_artist
                          THEN balances_artist[c.artist_id] ELSE 0
            old_venue == IF c.venue_id \in DOMAIN balances_venue
                         THEN balances_venue[c.venue_id] ELSE 0
            \* lines 285-286: plain u64 +=
            artist_overflows == old_artist + artist_cut > MaxU64
            venue_overflows == old_venue + venue_cut > MaxU64
            unchanged_rest == UNCHANGED <<next_artist_id, next_venue_id,
                                          next_concert_id, next_ticket_id, artists,
                                          venues, tickets, redeemed, holder_paid>>
        IN  IF CashOutRefused(c, now_ts)
            THEN Rejected("cash_out", <<concert_id, now_ts>>, FALSE)
            ELSE \E overflow_checks \in BuildChoices(
                        mul_overflows \/ artist_overflows \/ venue_overflows) :
                 IF overflow_checks /\ mul_overflows
                 THEN /\ call' = Panicked("cash_out", <<concert_id, now_ts>>)
                      /\ UNCHANGED <<ledger, history>>
                 ELSE IF overflow_checks /\ artist_overflows
                 THEN /\ call' = Panicked("cash_out", <<concert_id, now_ts>>)
                      /\ balances_artist' =
                            Insert(balances_artist, c.artist_id, old_artist)
                      /\ UNCHANGED <<balances_venue, concerts, wrapped, paid_out>>
                      /\ unchanged_rest
                 ELSE IF overflow_checks /\ venue_overflows
                 THEN /\ call' = Panicked("cash_out", <<concert_id, now_ts>>)
                      /\ balances_artist' = Insert(balances_artist, c.artist_id,
                            old_artist + artist_cut)
                      /\ balances_venue' =
                            Insert(balances_venue, c.venue_id, old_venue)
                      /\ UNCHANGED <<concerts, wrapped, paid_out>>
                      /\ unchanged_rest
                 ELSE /\ balances_artist' = Insert(balances_artist, c.artist_id,
                            wrapping_add(old_artist, artist_cut, MaxU64))
                      /\ balances_venue' = Insert(balances_venue, c.venue_id,
                            wrapping_add(old_venue, venue_cut, MaxU64))
                      /\ concerts' = [concerts EXCEPT ![concert_id].cashed_out = TRUE]
                      /\ call' = Returned("cash_out", <<concert_id, now_ts>>, TRUE)
                      /\ wrapped' = (wrapped \/ mul_overflows \/ artist_overflows
                                             \/ venue_overflows)
                      /\ paid_out' = [paid_out EXCEPT ![concert_id] = @ + 1]
                      /\ unchanged_rest

----------------------------------------------------------------------------
(* The calls a host makes.  Ids are passed as arguments whether or not the *)
(* record exists (soft references), so the id arguments range one past the *)
(* number of records that can be created.                                  *)

ArtistArgs == 1 .. MaxArtists + 1

VenueArgs == 1 .. MaxVenues + 1

ConcertArgs == 1 .. MaxConcerts

TicketArgs == 1 .. MaxTickets

\* The concert date of the repository's tests, and one less than a day after
\* the epoch, where the window's start saturates at 0.
TestDate == 1000000

EarlyDate == 50000

OptCodes(codes) == {None} \cup {Some(x) : x \in codes}

Users == {"alice", "bob"}

(* Spec: one concert with every kind of reference (matching, mismatched,  *)
(* dangling), and each method with arguments that reach all its branches. *)

Times == {TestDate - 10, TestDate + 1}

Next ==
    \/ /\ Running /\ next_artist_id < MaxArtists
       /\ create_artist("Artist", "band")
    \/ \E id \in ArtistArgs :
          /\ Running
          /\ update_artist(id, "Artist", "band")
    \/ /\ Running /\ next_venue_id < MaxVenues
       /\ create_venue("Venue", 1000, 1000, None)
    \/ \E id \in VenueArgs :
          /\ Running
          /\ update_venue(id, "Venue", 1000, 1000, None)
    \/ \E a \in ArtistArgs, v \in VenueArgs, n \in {1, 2} :
          /\ Running /\ next_concert_id < MaxConcerts - 1
          /\ create_concert(a, v, TestDate, 100, n)
    \/ \E c \in ConcertArgs, a \in ArtistArgs :
          /\ Running
          /\ validate_concert_by_artist(c, a)
    \/ \E c \in ConcertArgs, v \in VenueArgs :
          /\ Running
          /\ validate_concert_by_venue(c, v)
    \/ \E c \in ConcertArgs, a \in ArtistArgs, code \in OptCodes({"FREE1"}) :
          /\ Running
          /\ emit_ticket(c, a, code)
          /\ next_ticket_id' <= MaxTickets
    \/ \E c \in ConcertArgs :
          /\ Running
          /\ buy_ticket(c, "alice", 100)
          /\ next_ticket_id' <= MaxTickets
    \/ \E c \in ConcertArgs, a \in ArtistArgs :
          /\ Running
          /\ distribute_ticket(c, a, "FREE1")
          /\ next_ticket_id' <= MaxTickets
    \/ /\ Running
       /\ redeem_ticket("FREE1", "bob")
    \/ \E t \in TicketArgs :
          /\ Running
          /\ transfer_ticket(t, "alice", "bob")
    \/ \E t \in TicketArgs, now \in Times :
          /\ Running
          /\ use_ticket(t, "alice", now)
    \/ \E t \in TicketArgs, p \in {80, 120} :
          /\ Running
          /\ trade_ticket(t, "alice", "bob", p)
    \/ \E c \in ConcertArgs, now \in Times :
          /\ Running
          /\ cash_out(c, now)

Spec == Init /\ [][Next]_vars

(* SpecResale: one concert and one ticket, with the owners, prices and     *)
(* times that the ownership, resale and redemption rules tell apart.       *)

\* who hands a ticket to whom: <<from, to>>
Handovers ==
    {<<"alice", "bob">>, <<"bob", "alice">>, <<ArtistOwner(1), "alice">>}

ResalePrices == {0, 80, 100, 120}

WindowTimes(date_ts) ==
    {t \in {date_ts - WINDOW_SECS - 1, date_ts - WINDOW_SECS, date_ts, date_ts + 1} :
        t >= 0} \cup {0}

ResaleTimes == WindowTimes(TestDate) \cup WindowTimes(EarlyDate)

NextResale ==
    \/ /\ Running /\ next_artist_id < MaxArtists
       /\ create_artist("Artist", "band")
    \/ /\ Running
       /\ update_artist(1, "Artist", "band")
    \/ /\ Running /\ next_venue_id < MaxVenues
       /\ create_venue("Venue", 1000, 1000, None)
    \/ /\ Running
       /\ update_venue(1, "Venue", 1000, 1000, None)
    \/ \E d \in {EarlyDate, TestDate} :
          /\ Running /\ next_concert_id < MaxConcerts - 1
          /\ create_concert(1, 1, d, 100, 2)
    \/ /\ Running
       /\ validate_concert_by_artist(1, 1)
    \/ /\ Running
       /\ validate_concert_by_venue(1, 1)
    \/ \E code \in OptCodes({"FREE1"}) :
          /\ Running
          /\ emit_ticket(1, 1, code)
          /\ next_ticket_id' <= MaxTickets - 1
    \/ /\ Running
       /\ buy_ticket(1, "alice", 100)
       /\ next_ticket_id' <= MaxTickets - 1
    \/ /\ Running
       /\ distribute_ticket(1, 1, "FREE1")
       /\ next_ticket_id' <= MaxTickets - 1
    \/ \E u \in Users :
          /\ Running
          /\ redeem_ticket("FREE1", u)
    \/ \E t \in TicketArgs, h \in Handovers :
          /\ Running
          /\ transfer_ticket(t, h[1], h[2])
    \/ \E t \in TicketArgs, o \in Users, now \in ResaleTimes :
          /\ Running
          /\ use_ticket(t, o, now)
    \/ \E t \in TicketArgs, h \in Handovers, p \in ResalePrices :
          /\ Running
          /\ trade_ticket(t, h[1], h[2], p)
    \/ /\ Running
       /\ cash_out(1, TestDate)

SpecResale == Init /\ [][NextResale]_vars

(* SpecSettle: two concerts of one artist, sold at amounts up to the       *)
(* largest u64 and settled against venue cuts below and above 100%.  The   *)
(* other ticket calls are made by strangers (another artist, another       *)
(* owner), whom the ledger turns away.                                     *)

SettleAmounts == {100, MaxU64}

SettleBps == {1000, 12000}

SettleTimes == {TestDate - 1, TestDate}

NextSettle ==
    \/ /\ Running /\ next_artist_id < MaxArtists
       /\ create_artist("Artist", "band")
    \/ /\ Running
       /\ update_artist(1, "Artist", "band")
    \/ \E bps \in SettleBps :
          /\ Running /\ next_venue_id < MaxVenues
          /\ create_venue("Venue", 1000, bps, None)
    \/ \E bps \in SettleBps :
          /\ Running
          /\ update_venue(1, "Venue", 1000, bps, None)
    \/ \E v \in VenueArgs :
          /\ Running /\ next_concert_id < MaxConcerts
          /\ create_concert(1, v, TestDate, 100, 1)
    \/ \E c \in ConcertArgs :
          /\ Running
          /\ validate_concert_by_artist(c, 1)
    \/ \E c \in ConcertArgs, v \in VenueArgs :
          /\ Running
          /\ validate_concert_by_venue(c, v)
    \/ \E c \in ConcertArgs :
          /\ Running
          /\ emit_ticket(c, 2, None)
          /\ next_ticket_id' <= MaxTickets
    \/ \E c \in ConcertArgs, amount \in SettleAmounts :
          /\ Running
          /\ buy_ticket(c, "alice", amount)
          /\ next_ticket_id' <= MaxTickets
    \/ \E c \in ConcertArgs :
          /\ Running
          /\ distribute_ticket(c, 2, "FREE1")
          /\ next_ticket_id' <= MaxTickets
    \/ /\ Running
       /\ redeem_ticket("FREE1", "alice")
    \/ \E t \in TicketArgs :
          /\ Running
          /\ transfer_ticket(t, "bob", "alice")
    \/ \E t \in TicketArgs :
          /\ Running
          /\ use_ticket(t, "bob", TestDate)
    \/ \E t \in TicketArgs :
          /\ Running
          /\ trade_ticket(t, "bob", "alice", 100)
    \/ \E c \in ConcertArgs, now \in SettleTimes :
          /\ Running
          /\ cash_out(c, now)

SpecSettle == Init /\ [][NextSettle]_vars

----------------------------------------------------------------------------
(* SpecIds: several records of every type are created, interleaved with    *)
(* calls the ledger accepts and calls it turns away, so that each id       *)
(* counter hands out more than one id.                                     *)

\* how many artists and venues SpecIds registers
MaxIds == 2

IdArgs == 1 .. MaxIds

NextIds ==
    \/ /\ Running /\ next_artist_id < MaxIds
       /\ create_artist("Artist", "band")
    \/ /\ Running
       /\ update_artist(MaxIds + 1, "Artist", "band")
    \/ /\ Running /\ next_venue_id < MaxIds
       /\ create_venue("Venue", 1000, 1000, None)
    \/ /\ Running
       /\ update_venue(MaxIds + 1, "Venue", 1000, 1000, None)
    \/ /\ Running /\ next_concert_id < MaxConcerts
       /\ create_concert(1, 1, TestDate, 100, 1)
    \/ \E c \in ConcertArgs :
          /\ Running
          /\ validate_concert_by_artist(c, 1)
    \/ \E c \in ConcertArgs :
          /\ Running
          /\ validate_concert_by_venue(c, 1)
    \/ \E c \in ConcertArgs, a \in IdArgs :
          /\ Running
          /\ emit_ticket(c, a, None)
          /\ next_ticket_id' <= MaxTickets
    \/ \E c \in ConcertArgs :
          /\ Running
          /\ buy_ticket(c, "alice", 100)
          /\ next_ticket_id' <= MaxTickets
    \/ \E c \in ConcertArgs :
          /\ Running
          /\ distribute_ticket(c, 1, "FREE1")
          /\ next_ticket_id' <= MaxTickets
    \/ /\ Running
       /\ redeem_ticket("FREE1", "bob")
    \/ /\ Running
       /\ transfer_ticket(1, "alice", "bob")
    \/ /\ Running
       /\ use_ticket(1, "alice", TestDate)
    \/ /\ Running
       /\ trade_ticket(1, "bob", "alice", 100)
    \/ /\ Running
       /\ cash_out(1, TestDate)

SpecIds == Init /\ [][NextIds]_vars

----------------------------------------------------------------------------
(* The claims. *)

IssueOps == {"emit_ticket", "buy_ticket", "distribute_ticket"}

SoldOut(c) == concerts[c].tickets_issued = concerts[c].total_tickets

Validated(c) == concerts[c].validated_by_artist /\ concerts[c].validated_by_venue

\* C1 (supply cap): no concert ever has more tickets issued than its
\* total_tickets, and every emit_ticket, buy_ticket and distribute_ticket
\* call on a concert whose tickets_issued equals total_tickets returns None.
C1_SupplyCap ==
    /\ [](\A c \in DOMAIN concerts :
            concerts[c].tickets_issued <= concerts[c].total_tickets)
    /\ [][\A c \in DOMAIN concerts :
            (SoldOut(c) /\ call'.op \in IssueOps /\ call'.args[1] = c)
                => (call'.outcome = "returned" /\ call'.ret = None)]_vars

\* A sale and a distribution have filled a concert of two tickets, and a
\* further sale on it has returned None.
C1_Witness ==
    \E c \in DOMAIN concerts :
        /\ concerts[c].total_tickets = 2 /\ SoldOut(c)
        /\ concerts[c].tickets_sold = 1
        /\ call = Returned("buy_ticket", <<c, "alice", 100>>, None)

\* C2 (dual validation gate): emit_ticket, buy_ticket and distribute_ticket
\* return a ticket only on a concert that has both validation flags set at
\* the time of the call, and every ticket in the store belongs to a concert
\* with both flags set.
C2_DualValidation ==
    /\ [](\A t \in DOMAIN tickets :
            /\ tickets[t].concert_id \in DOMAIN concerts
            /\ Validated(tickets[t].concert_id))
    /\ [][(call'.op \in IssueOps /\ call'.outcome = "returned" /\ call'.ret # None)
            => (call'.args[1] \in DOMAIN concerts /\ Validated(call'.args[1]))]_vars

\* The artist's flag alone is set, and the artist's own emit_ticket has
\* returned None.
C2_Witness ==
    \E c \in DOMAIN concerts :
        /\ concerts[c].validated_by_artist /\ ~concerts[c].validated_by_venue
        /\ concerts[c].tickets_issued < concerts[c].total_tickets
        /\ call = Returned("emit_ticket", <<c, concerts[c].artist_id, None>>, None)

\* C3 (redeem-once), as claimed: once a redeem_ticket call with a code has
\* returned a ticket, every later redeem_ticket call with that code returns
\* None.
C3_RedeemOnce ==
    [][(call'.op = "redeem_ticket" /\ call'.args[1] \in redeemed)
            => call'.ret = None]_vars

\* C4 (redemption window): for an existing, not yet used ticket and a caller
\* equal to its owner, use_ticket returns true exactly when
\* date_ts - 86400 <= now_ts <= date_ts for the ticket's concert; a used
\* ticket stays used, and every use_ticket on a used ticket returns false.
C4_RedemptionWindow ==
    [][/\ \A t \in DOMAIN tickets : tickets[t].used => tickets'[t].used
       /\ (call'.op = "use_ticket" /\ call'.args[1] \in DOMAIN tickets) =>
            LET t == tickets[call'.args[1]]
                now_ts == call'.args[3]
                date_ts == concerts[t.concert_id].date_ts
            IN  /\ call'.outcome = "returned"
                /\ t.used => call'.ret = FALSE
                /\ (~t.used /\ t.owner = Some(call'.args[2])) =>
                     (call'.ret = TRUE <=>
                        (date_ts - 86400 <= now_ts /\ now_ts <= date_ts))]_vars

\* The owner's use_ticket has returned true exactly 86400 seconds before the
\* concert.
C4_Witness ==
    \E t \in DOMAIN tickets :
        /\ tickets[t].used
        /\ call = Returned("use_ticket", <<t, "alice", TestDate - 86400>>, TRUE)

\* C5 (price ceiling): a successful trade_ticket has price <= price_paid
\* before the call and sets price_paid to it; no step raises a ticket's
\* price_paid; a trade_ticket above price_paid returns false and leaves owner
\* and price_paid alone.
C5_PriceCeiling ==
    [][/\ \A t \in DOMAIN tickets :
            tickets'[t].price_paid <= tickets[t].price_paid
       /\ (call'.op = "trade_ticket" /\ call'.args[1] \in DOMAIN tickets) =>
            LET id == call'.args[1]
                price == call'.args[4]
            IN  /\ call'.ret = TRUE =>
                     /\ price <= tickets[id].price_paid
                     /\ tickets'[id].price_paid = price
                /\ price > tickets[id].price_paid =>
                     /\ call'.ret = FALSE
                     /\ tickets'[id].owner = tickets[id].owner
                     /\ tickets'[id].price_paid = tickets[id].price_paid]_vars

\* A ticket bought at 100 has been traded down to 80, and its new holder's
\* attempt to trade it at 100 has returned false.
C5_Witness ==
    \E t \in DOMAIN tickets :
        /\ tickets[t].price_paid = 80
        /\ tickets[t].owner = Some("bob")
        /\ call = Returned("trade_ticket", <<t, "bob", "alice", 100>>, FALSE)

\* C6 (cash-out is one-shot): cash_out returns true at most once per concert,
\* cashed_out never goes back to false, and a cash_out on a concert already
\* cashed out returns false and leaves both balance maps unchanged.
C6_CashOutOnce ==
    /\ [](\A c \in DOMAIN concerts : paid_out[c] <= 1)
    /\ [][\A c \in DOMAIN concerts :
            /\ concerts[c].cashed_out => concerts'[c].cashed_out
            /\ (concerts[c].cashed_out /\ call'.op = "cash_out"
                    /\ call'.args[1] = c) =>
                 /\ call'.outcome = "returned" /\ call'.ret = FALSE
                 /\ balances_artist' = balances_artist
                 /\ balances_venue' = balances_venue]_vars

\* A concert with revenue has been cashed out, and a second cash_out on it at
\* the concert's date has returned false.
C6_Witness ==
    \E c \in DOMAIN concerts :
        /\ concerts[c].cashed_out /\ paid_out[c] = 1
        /\ concerts[c].revenue > 0
        /\ call = Returned("cash_out", <<c, TestDate>>, FALSE)

\* floor(a * b / d), computed without forming a * b
MulDiv(a, b, d) == (a \div d) * b + ((a % d) * b) \div d

\* C7 (settlement split), as claimed: a successful cash_out with
\* venue_cut_bps <= 10000 adds floor(revenue * venue_cut_bps / 10000) to the
\* venue's balance and revenue minus that to the artist's balance; with
\* venue_cut_bps > 10000 the artist is credited 0.
C7_SettlementSplit ==
    [][(call'.op = "cash_out" /\ call'.outcome = "returned" /\ call'.ret = TRUE
            /\ concerts[call'.args[1]].venue_id \in DOMAIN venues) =>
         LET c == concerts[call'.args[1]]
             bps == venues[c.venue_id].venue_cut_bps
             venue_cut == MulDiv(c.revenue, bps, 10000)
             old_artist == IF c.artist_id \in DOMAIN balances_artist
                           THEN balances_artist[c.artist_id] ELSE 0
             old_venue == IF c.venue_id \in DOMAIN balances_venue
                          THEN balances_venue[c.venue_id] ELSE 0
         IN  /\ bps <= 10000 =>
                  /\ balances_venue'[c.venue_id] = old_venue + venue_cut
                  /\ balances_artist'[c.artist_id] =
                        old_artist + (c.revenue - venue_cut)
             /\ bps > 10000 => balances_artist'[c.artist_id] = old_artist]_vars

RefusedOps == {"emit_ticket", "buy_ticket", "distribute_ticket", "redeem_ticket"}

FailedOps == {"transfer_ticket", "trade_ticket", "use_ticket", "cash_out"}

\* C8 (no partial mutation on rejection): a call of emit_ticket, buy_ticket,
\* distribute_ticket or redeem_ticket that returns None, and a call of
\* transfer_ticket, trade_ticket, use_ticket or cash_out that returns false,
\* leaves the four maps, the two balance maps and the four counters unchanged.
C8_NoPartialMutation ==
    [][(/\ call'.outcome = "returned"
        /\ \/ call'.op \in RefusedOps /\ call'.ret = None
           \/ call'.op \in FailedOps /\ call'.ret = FALSE)
            => ledger' = ledger]_vars

\* The owner of a ticket bought at 100 has offered it at 120, and trade_ticket
\* has returned false.
C8_Witness ==
    \E t \in DOMAIN tickets :
        /\ tickets[t].owner = Some("alice") /\ tickets[t].price_paid = 100
        /\ ~tickets[t].used
        /\ call = Returned("trade_ticket", <<t, "alice", "bob", 120>>, FALSE)

\* C9 (resale never exceeds what the seller paid), as claimed: the price of a
\* successful trade_ticket is at most what the seller paid to acquire the
\* ticket: amount_paid after buy_ticket, the trade price after trade_ticket,
\* 0 after emit_ticket, redeem_ticket or transfer_ticket.
C9_SellerPaid ==
    [][(call'.op = "trade_ticket" /\ call'.outcome = "returned"
            /\ call'.ret = TRUE)
            => call'.args[4] <= holder_paid[call'.args[1]]]_vars

\* C10 (saturating arithmetic, no abort), as claimed: no operation aborts and
\* no arithmetic step wraps.
C10_NoOverflowNoAbort == call.outcome = "returned" /\ ~wrapped

\* C11 (a redeem code is present only while awaiting redemption), as claimed:
\* every ticket whose redeem_code is not None has owner None.
C11_CodeOnlyWhileUnowned ==
    \A t \in DOMAIN tickets :
        tickets[t].redeem_code # None => tickets[t].owner = None

\* the sum of f[x] over the x in S
RECURSIVE SumOf(_, _)
SumOf(f, S) ==
    IF S = {} THEN 0
    ELSE LET x == CHOOSE y \in S : TRUE
         IN  f[x] + SumOf(f, S \ {x})

ConcertsOf(artist_id) == {c \in DOMAIN concerts : concerts[c].artist_id = artist_id}

\* C12 (artist sales counter), as claimed: each registered artist's
\* total_tickets_sold equals the sum of tickets_sold over the concerts whose
\* artist_id is that artist.
C12_ArtistSalesCounter ==
    \A a \in DOMAIN artists :
        artists[a].total_tickets_sold =
            SumOf([c \in DOMAIN concerts |-> concerts[c].tickets_sold], ConcertsOf(a))

\* every map holds exactly the ids its counter has handed out, each record
\* under its own id
IdsInUse ==
    /\ DOMAIN artists = 1 .. next_artist_id
    /\ DOMAIN venues = 1 .. next_venue_id
    /\ DOMAIN concerts = 1 .. next_concert_id
    /\ DOMAIN tickets = 1 .. next_ticket_id
    /\ \A i \in DOMAIN artists : artists[i].id = i
    /\ \A i \in DOMAIN venues : venues[i].id = i
    /\ \A i \in DOMAIN concerts : concerts[i].id = i
    /\ \A i \in DOMAIN tickets : tickets[i].id = i

\* C13 (identifiers): for each entity type the ids returned are 1, 2, 3, ...
\* in that order: every id returned is one more than the last id returned
\* for its type (1 for the first), is not yet the id of a record, and the
\* counters never go back, whatever calls are accepted or rejected between.
C13_Identifiers ==
    /\ []IdsInUse
    /\ [][/\ next_artist_id' >= next_artist_id
          /\ next_venue_id' >= next_venue_id
          /\ next_concert_id' >= next_concert_id
          /\ next_ticket_id' >= next_ticket_id
          /\ call'.op = "create_artist" =>
                /\ call'.ret = next_artist_id + 1
                /\ call'.ret \notin DOMAIN artists
                /\ next_artist_id' = call'.ret
          /\ call'.op = "create_venue" =>
                /\ call'.ret = next_venue_id + 1
                /\ call'.ret \notin DOMAIN venues
                /\ next_venue_id' = call'.ret
          /\ call'.op = "create_concert" =>
                /\ call'.ret = next_concert_id + 1
                /\ call'.ret \notin DOMAIN concerts
                /\ next_concert_id' = call'.ret
          /\ (call'.op \in IssueOps /\ call'.ret # None) =>
                /\ call'.ret = Some(next_ticket_id + 1)
                /\ next_ticket_id + 1 \notin DOMAIN tickets
                /\ next_ticket_id' = next_ticket_id + 1]_vars

\* Two artists, two venues and two concerts are registered, and the second
\* ticket has been issued with id 2.
C13_Witness ==
    /\ next_artist_id = 2 /\ next_venue_id = 2 /\ next_concert_id = 2
    /\ call.op \in IssueOps /\ call.ret = Some(2)
    /\ DOMAIN tickets = {1, 2}

\* C14 (validation authorization and independence): validated_by_artist
\* becomes true only through validate_concert_by_artist with the concert's own
\* artist_id, validated_by_venue only through validate_concert_by_venue with
\* the concert's own venue_id; a validation call with a mismatched or unknown
\* id changes nothing; each validation call leaves the other flag alone; a
\* concert starts with both flags false and no step clears a flag.
C14_ValidationAuthorization ==
    [][/\ \A c \in DOMAIN concerts :
            /\ concerts[c].validated_by_artist => concerts'[c].validated_by_artist
            /\ concerts[c].validated_by_venue => concerts'[c].validated_by_venue
            /\ (~concerts[c].validated_by_artist /\ concerts'[c].validated_by_artist)
                  => call' = Returned("validate_concert_by_artist",
                                      <<c, concerts[c].artist_id>>, Unit)
            /\ (~concerts[c].validated_by_venue /\ concerts'[c].validated_by_venue)
                  => call' = Returned("validate_concert_by_venue",
                                      <<c, concerts[c].venue_id>>, Unit)
       /\ \A c \in DOMAIN concerts' \ DOMAIN concerts :
            ~concerts'[c].validated_by_artist /\ ~concerts'[c].validated_by_venue
       /\ call'.op = "validate_concert_by_artist" =>
            /\ \A c \in DOMAIN concerts :
                  concerts'[c].validated_by_venue = concerts[c].validated_by_venue
            /\ (call'.args[1] \notin DOMAIN concerts
                  \/ concerts[call'.args[1]].artist_id # call'.args[2])
                  => ledger' = ledger
       /\ call'.op = "validate_concert_by_venue" =>
            /\ \A c \in DOMAIN concerts :
                  concerts'[c].validated_by_artist = concerts[c].validated_by_artist
            /\ (call'.args[1] \notin DOMAIN concerts
                  \/ concerts[call'.args[1]].venue_id # call'.args[2])
                  => ledger' = ledger]_vars

\* A concert validated by its venue has been called on by an artist other
\* than its own, and its artist flag is still false.
C14_Witness ==
    \E c \in DOMAIN concerts :
        /\ call.op = "validate_concert_by_artist" /\ call.args[1] = c
        /\ call.args[2] # concerts[c].artist_id
        /\ concerts[c].validated_by_venue /\ ~concerts[c].validated_by_artist

TicketOps == {"transfer_ticket", "trade_ticket", "use_ticket"}

\* C15 (a used ticket is frozen): a used ticket stays used and keeps its owner
\* and price_paid in every step; transfer_ticket, trade_ticket and use_ticket
\* on a used ticket return false, and redeem_ticket never returns a used
\* ticket.
C15_UsedTicketFrozen ==
    [][/\ \A t \in DOMAIN tickets :
            tickets[t].used =>
                /\ tickets'[t].used
                /\ tickets'[t].owner = tickets[t].owner
                /\ tickets'[t].price_paid = tickets[t].price_paid
       /\ (call'.op \in TicketOps /\ call'.args[1] \in DOMAIN tickets
                /\ tickets[call'.args[1]].used)
            => (call'.outcome = "returned" /\ call'.ret = FALSE)
       /\ (call'.op = "redeem_ticket" /\ call'.ret # None)
            => ~tickets[call'.ret[1]].used]_vars

\* A ticket has been used by its owner, whose attempt to transfer it
\* afterwards has returned false.
C15_Witness ==
    \E t \in DOMAIN tickets :
        /\ tickets[t].used /\ tickets[t].owner = Some("alice")
        /\ call = Returned("transfer_ticket", <<t, "alice", "bob">>, FALSE)

\* C16 (cash_out gate), as claimed: cash_out returns true exactly when the
\* concert exists, is not cashed out and now_ts >= date_ts, whatever the
\* revenue, the validation flags and the artist and venue records are; a call
\* with now_ts < date_ts leaves the balances and cashed_out unchanged.
C16_CashOutGate ==
    [][call'.op = "cash_out" =>
         LET c == call'.args[1]
             now_ts == call'.args[2]
         IN  /\ (call'.outcome = "returned" /\ call'.ret = TRUE) <=>
                   /\ c \in DOMAIN concerts
                   /\ ~concerts[c].cashed_out
                   /\ now_ts >= concerts[c].date_ts
             /\ (c \in DOMAIN concerts /\ now_ts < concerts[c].date_ts) =>
                   /\ balances_artist' = balances_artist
                   /\ balances_venue' = balances_venue
                   /\ concerts'[c].cashed_out = concerts[c].cashed_out]_vars

MintOps == {"emit_ticket", "distribute_ticket"}

\* C17 (free mints touch only the issuance counter): a successful emit_ticket
\* or distribute_ticket raises the concert's tickets_issued by one, adds one
\* ticket with price_paid = 0 and minted_by_artist = true, and leaves the
\* concert's tickets_sold and revenue, the other tickets and concerts, the
\* artists and both balance maps unchanged; a call by an artist other than
\* the concert's returns None.
C17_FreeMintFrame ==
    [][call'.op \in MintOps =>
         LET c == call'.args[1]
         IN  /\ call'.ret # None =>
                  LET id == call'.ret[1]
                  IN  /\ concerts'[c].tickets_issued = concerts[c].tickets_issued + 1
                      /\ concerts'[c].tickets_sold = concerts[c].tickets_sold
                      /\ concerts'[c].revenue = concerts[c].revenue
                      /\ \A d \in DOMAIN concerts \ {c} : concerts'[d] = concerts[d]
                      /\ id \notin DOMAIN tickets
                      /\ DOMAIN tickets' = DOMAIN tickets \cup {id}
                      /\ \A t \in DOMAIN tickets : tickets'[t] = tickets[t]
                      /\ tickets'[id].price_paid = 0
                      /\ tickets'[id].minted_by_artist
                      /\ tickets'[id].concert_id = c
                      /\ artists' = artists
                      /\ balances_artist' = balances_artist
                      /\ balances_venue' = balances_venue
             /\ (c \in DOMAIN concerts /\ concerts[c].artist_id # call'.args[2])
                  => call'.ret = None]_vars

\* After a sale at 100, a free ticket has been distributed on the same
\* concert: two tickets issued, one sold, revenue 100.
C17_Witness ==
    \E c \in DOMAIN concerts :
        /\ call.op = "distribute_ticket" /\ call.args[1] = c /\ call.ret # None
        /\ concerts[c].tickets_issued = 2 /\ concerts[c].tickets_sold = 1
        /\ concerts[c].revenue = 100

\* C18 (transfer_ticket): the call returns true exactly when the ticket
\* exists, its owner is `from` and it is not used; on success the owner
\* becomes `to` and nothing else in the ledger changes; a ticket without an
\* owner is never transferred.
C18_TransferFrame ==
    [][call'.op = "transfer_ticket" =>
         LET t == call'.args[1]
             from == call'.args[2]
             to == call'.args[3]
         IN  /\ call'.outcome = "returned"
             /\ call'.ret = TRUE <=>
                   /\ t \in DOMAIN tickets
                   /\ tickets[t].owner = Some(from)
                   /\ ~tickets[t].used
             /\ call'.ret = TRUE =>
                   /\ tickets' = [tickets EXCEPT ![t].owner = Some(to)]
                   /\ tickets'[t].price_paid = tickets[t].price_paid
                   /\ concerts' = concerts
                   /\ artists' = artists /\ venues' = venues
                   /\ balances_artist' = balances_artist
                   /\ balances_venue' = balances_venue
                   /\ <<next_artist_id', next_venue_id', next_concert_id',
                        next_ticket_id'>> = <<next_artist_id, next_venue_id,
                                              next_concert_id, next_ticket_id>>
             /\ (t \in DOMAIN tickets /\ tickets[t].owner = None)
                   => (call'.ret = FALSE /\ tickets'[t].owner = None)]_vars

\* A ticket bought at 100 has been transferred from alice to bob and still
\* has price_paid 100.
C18_Witness ==
    \E t \in DOMAIN tickets :
        /\ call = Returned("transfer_ticket", <<t, "alice", "bob">>, TRUE)
        /\ tickets[t].owner = Some("bob") /\ tickets[t].price_paid = 100
        /\ ~tickets[t].used /\ tickets[t].redeem_code = None

CashedOut == {c \in DOMAIN concerts : concerts[c].cashed_out}

\* C19 (settled funds are conserved), as claimed: whenever every venue has
\* venue_cut_bps <= 10000, the artist balances and the venue balances
\* together equal the revenue of the concerts that are cashed out.
C19_FundsConserved ==
    (\A v \in DOMAIN venues : venues[v].venue_cut_bps <= 10000) =>
        SumOf(balances_artist, DOMAIN balances_artist)
            + SumOf(balances_venue, DOMAIN balances_venue)
          = SumOf([c \in DOMAIN concerts |-> concerts[c].revenue], CashedOut)

TicketsOf(c) == {t \in DOMAIN tickets : tickets[t].concert_id = c}

\* C20 (counters match the ticket store): for every concert, tickets_issued is
\* the number of tickets of that concert in the store, tickets_sold is the
\* number of those not minted by the artist, and tickets_sold <= tickets_issued.
C20_CountersMatchStore ==
    \A c \in DOMAIN concerts :
        /\ concerts[c].tickets_issued = Cardinality(TicketsOf(c))
        /\ concerts[c].tickets_sold =
              Cardinality({t \in TicketsOf(c) : ~tickets[t].minted_by_artist})
        /\ concerts[c].tickets_sold <= concerts[c].tickets_issued

\* Of two concerts, one has sold a ticket and the other has had a free ticket
\* minted.
C20_Witness ==
    \E c, d \in DOMAIN concerts :
        /\ concerts[c].tickets_sold = 1 /\ concerts[c].tickets_issued = 1
        /\ concerts[d].tickets_sold = 0 /\ concerts[d].tickets_issued = 1
        /\ Cardinality(DOMAIN tickets) = 2

====
